---- MODULE Spec2Model ----
(***************************************************************************)
(* A model of skills/data-engineering-core/templates/complete_etl_pipeline *)
(* .py: the DataPipeline class (DuckDB store, Polars lazy frames).         *)
(*                                                                         *)
(* Encoding.                                                               *)
(*   - A frame or a table is a bag (multiset) of rows: no operation of the *)
(*     pipeline depends on row order.                                      *)
(*   - A source row is [id, event_type, value, timestamp, metadata]; its   *)
(*     timestamp is a string cell (or NULL), its value an integer standing *)
(*     for a DOUBLE (or NULL).                                             *)
(*   - A cell is NULL (the empty tuple) or Some(x) (the one-element tuple  *)
(*     of its content x).                                                  *)
(*   - A datetime is a number of hours since 2023-12-31T00:00:00; a date   *)
(*     is a number of days since 2023-12-31.                               *)
(*   - The store (the DuckDB file) is a function from the names of its     *)
(*     tables to their contents; it outlives every connection.             *)
(*                                                                         *)
(* Specifications. The program is single-threaded, so its calls follow one *)
(* another; three specifications cover them, sharing the actions of load.  *)
(*   - Spec: pipelines are constructed and released on one store, the      *)
(*     tables are initialized, frames are loaded.                          *)
(*   - SpecRead: an open pipeline loads frames and answers get_summary and *)
(*     get_watermark.                                                      *)
(*   - SpecRun: one call of run, step by step, on every source.            *)
(***************************************************************************)
EXTENDS Integers, Sequences, FiniteSets, Bags, TLC

\* ------------------------------------------------------------------ bounds

\* Rows in one source file (and in one frame handed to load directly).
MaxBatch == 2
\* Rows raw_events may come to hold: load is not called past it.
MaxStored == 4
\* Connections that may be open at once: none is opened past it.
MaxOpen == 2

\* ------------------------------------------------------------- input data

\* A missing cell, and a cell that holds x.
NULL == <<>>
Some(x) == <<x>>

Ids == {"a"}
EventTypes == {"click", "view"}
\* DOUBLE values a source may hold: missing, not positive, positive.
SourceValues == {NULL, Some(-1), Some(2)}
\* Timestamp cells a source may hold: missing, malformed, well-formed.
SourceTimestamps ==
    {NULL, Some("not-a-date"), Some("2023-12-31T12:00:00"),
     Some("2024-01-01T00:00:00"), Some("2024-01-01T12:00:00"),
     Some("2024-01-02T00:00:00")}

SourceRows ==
    [id : Ids, event_type : EventTypes, value : SourceValues,
     timestamp : SourceTimestamps, metadata : {"{}"}]

\* ------------------------------------------------------------ bag helpers

RECURSIVE SumOver(_, _)
\* The sum of f[x] over the finite set S.
SumOver(f, S) ==
    IF S = {} THEN 0
    ELSE LET x == CHOOSE y \in S : TRUE IN f[x] + SumOver(f, S \ {x})

\* The bag holding the rows of the sequence s.
SeqToBag(s) ==
    LET rows == {s[i] : i \in 1..Len(s)}
    IN [r \in rows |-> Cardinality({i \in 1..Len(s) : s[i] = r})]

\* Every bag of at most n rows of S.
BagsUpTo(S, n) ==
    UNION {{SeqToBag(s) : s \in [1..k -> S]} : k \in 0..n}

\* The rows of bag B that keep (a function on them) holds of, with their
\* multiplicities.
FilterBag(B, keep) ==
    [r \in {x \in DOMAIN B : keep[x]} |-> B[r]]

\* The images under f (a function on them) of the rows of bag B,
\* multiplicities added up.
MapBag(B, f) ==
    [y \in {f[x] : x \in DOMAIN B} |->
        SumOver(B, {x \in DOMAIN B : f[x] = y})]

\* Every source file the pipeline may be pointed at.
Sources == BagsUpTo(SourceRows, MaxBatch)

\* ------------------------------------------------------- polars expressions

\* datetime(2024, 1, 1), in hours since 2023-12-31T00:00:00.
LowerBound == 24

\* The text of a well-formed timestamp to its datetime.
ParseDatetime(s) ==
    CASE s = "2023-12-31T12:00:00" -> 12
      [] s = "2024-01-01T00:00:00" -> 24
      [] s = "2024-01-01T12:00:00" -> 36
      [] s = "2024-01-02T00:00:00" -> 48

WellFormed(s) ==
    s \in {"2023-12-31T12:00:00", "2024-01-01T00:00:00",
           "2024-01-01T12:00:00", "2024-01-02T00:00:00"}

\* pl.col("timestamp").str.to_datetime(): strict is left at its default
\* (True), so a cell that does not parse is an error, not a null.
StrictDefault == TRUE

\* The outcome of str.to_datetime on one cell: [ok, value].
to_datetime(cell, strict) ==
    IF cell = NULL THEN [ok |-> TRUE, value |-> NULL]
    ELSE IF WellFormed(cell[1])
         THEN [ok |-> TRUE, value |-> Some(ParseDatetime(cell[1]))]
    ELSE IF strict THEN [ok |-> FALSE, value |-> NULL]
    ELSE [ok |-> TRUE, value |-> NULL]

\* pl.col("value").fill_null(0)
fill_null(cell, with) == IF cell = NULL THEN Some(with) ELSE cell

\* pl.col("timestamp").dt.date()
dt_date(t) == t \div 24

\* cell >= c where the code has cell > c.
GreaterOrEqual(cell, c) == cell # NULL /\ cell[1] >= c
\* A comparison with a null is null, and filter drops the row.
GreaterThan(cell, c) == cell # NULL /\ cell[1] > c
GreaterEq(cell, c) == cell # NULL /\ cell[1] >= c

\* ------------------------------------------------------------- lazy frames

\* pl.scan_csv / pl.scan_parquet: a lazy frame over a source, with no
\* operation recorded yet. Nothing is read until collect.
scan(source) == [scan |-> source, plan |-> <<>>]

\* extract(source): all three branches return a lazy scan of the source.
extract(source) == scan(source)

\* transform(df): records with_columns, then the two filters, on the lazy
\* frame. Nothing is evaluated here.
transform(lf) ==
    [lf EXCEPT !.plan =
        @ \o <<"with_columns", "filter_value", "filter_timestamp">>]

\* with_columns([timestamp.str.to_datetime(), value.fill_null(0)]) on a row.
WithColumnsRow(r) ==
    [r EXCEPT !.timestamp = to_datetime(@, StrictDefault).value,
              !.value = fill_null(@, 0)]

\* One operation of a plan applied to a materialized frame: [ok, frame].
ApplyOp(op, frame) ==
    CASE op = "with_columns" ->
           IF \E r \in DOMAIN frame : ~to_datetime(r.timestamp, StrictDefault).ok
           THEN [ok |-> FALSE, frame |-> EmptyBag]
           ELSE [ok |-> TRUE,
                 frame |-> MapBag(frame,
                              [r \in DOMAIN frame |-> WithColumnsRow(r)])]
      [] op = "filter_value" ->
           [ok |-> TRUE,
            frame |-> FilterBag(frame,
                         [r \in DOMAIN frame |-> GreaterThan(r.value, 0)])]
      [] op = "filter_timestamp" ->
           [ok |-> TRUE,
            frame |-> FilterBag(frame,
                         [r \in DOMAIN frame |->
                             GreaterEq(r.timestamp, LowerBound)])]

RECURSIVE RunPlan(_, _)
\* The operations of plan applied in order; the first error ends it.
RunPlan(plan, frame) ==
    IF plan = <<>> THEN [ok |-> TRUE, frame |-> frame]
    ELSE LET step == ApplyOp(Head(plan), frame)
         IN IF step.ok THEN RunPlan(Tail(plan), step.frame) ELSE step

\* LazyFrame.collect(): materializes the frame, [ok, frame].
collect(lf) == RunPlan(lf.plan, lf.scan)

\* Frames that satisfy the post-transform invariants: what the default
\* transform can hand to load.
LoadRows ==
    {r \in {WithColumnsRow(x) : x \in SourceRows} :
        GreaterThan(r.value, 0) /\ GreaterEq(r.timestamp, LowerBound)}
LoadFrames == BagsUpTo(LoadRows, MaxBatch)

\* The daily summary of load: group_by(date, event_type), sum(value),
\* count(id). One row per group.
Summary(df) ==
    LET keys == {<<dt_date(r.timestamp[1]), r.event_type>> : r \in DOMAIN df}
        group(k) == {r \in DOMAIN df :
                        <<dt_date(r.timestamp[1]), r.event_type>> = k}
        total(k) == SumOver([r \in group(k) |-> df[r] * r.value[1]], group(k))
        count(k) == SumOver([r \in group(k) |-> df[r]], group(k))
    IN SetToBag({[date |-> k[1], event_type |-> k[2],
                  total_value |-> total(k), event_count |-> count(k)] :
                 k \in keys})

\* ------------------------------------------------------------------ DuckDB

\* The columns of the two tables, and of the frames load selects from.
RawEventsColumns == <<"id", "event_type", "value", "timestamp", "metadata">>
DailySummaryColumns ==
    <<"date", "event_type", "total_value", "event_count", "processed_at">>
FrameColumns == <<"id", "event_type", "value", "timestamp", "metadata">>
SummaryColumns == <<"date", "event_type", "total_value", "event_count">>

Columns(name) ==
    IF name = "raw_events" THEN RawEventsColumns ELSE DailySummaryColumns

\* The store before any pipeline has run: no table.
EmptyStore == [t \in {} |-> EmptyBag]

\* CREATE OR REPLACE TABLE name: an existing table is dropped and made anew.
CreateOrReplaceTable(store, name) ==
    [ok |-> TRUE,
     store |-> [t \in DOMAIN store \cup {name} |->
                   IF t = name THEN EmptyBag ELSE store[t]]]

\* CREATE TABLE IF NOT EXISTS name: an existing table is left as it is, and
\* is no error. [ok, store].
CreateTableIfNotExists(store, name) ==
    IF name \in DOMAIN store THEN [ok |-> TRUE, store |-> store]
    ELSE [ok |-> TRUE, store |-> store @@ (name :> EmptyBag)]

\* _init_duckdb_tables(): the two CREATE TABLE IF NOT EXISTS statements, the
\* second run when the first has not raised. [ok, store].
init_duckdb_tables(store) ==
    LET first == CreateTableIfNotExists(store, "raw_events")
    IN IF first.ok THEN CreateTableIfNotExists(first.store, "daily_summary")
       ELSE first

\* INSERT INTO name SELECT * FROM frame: with no column list the select's
\* columns are matched to the table's by position, and a select that
\* supplies another number of columns than the table has is rejected when the
\* statement is bound (a DEFAULT fills a column only when a column list leaves
\* it out). The statement is atomic: rejected, it inserts nothing.
InsertSelectStar(store, name, frame, frameColumns) ==
    IF name \in DOMAIN store /\ Len(frameColumns) = Len(Columns(name))
    THEN [ok |-> TRUE, store |-> [store EXCEPT ![name] = @ (+) frame]]
    ELSE [ok |-> FALSE, store |-> store]

\* -------------------------------------------------------------- SQL text

\* The statements of the text get_watermark sends: the f-string puts
\* table_name after "SELECT MAX(timestamp) FROM ", and whatever follows a
\* ";" in table_name is a statement of its own. An argument is modelled as
\* [table, rest]: the name up to the first ";" and the statements after it.
WatermarkQuery(table_name) ==
    <<[op |-> "SELECT_MAX", column |-> "timestamp", table |-> table_name.table]>>
    \o table_name.rest

\* The arguments get_watermark is called with: the two tables, and a string
\* that carries a second statement.
PlainName(name) == [table |-> name, rest |-> <<>>]
WatermarkArgs ==
    {PlainName("raw_events"), PlainName("daily_summary"),
     [table |-> "raw_events",
      rest |-> <<[op |-> "DELETE", column |-> "*", table |-> "raw_events"]>>]}

RECURSIVE MaxOf(_)
\* The largest number of a non-empty finite set.
MaxOf(S) ==
    LET x == CHOOSE y \in S : TRUE
    IN IF S = {x} THEN x
       ELSE LET m == MaxOf(S \ {x}) IN IF x > m THEN x ELSE m

RECURSIVE MinOf(_)
\* The smallest number of a non-empty finite set.
MinOf(S) ==
    LET x == CHOOSE y \in S : TRUE
    IN IF S = {x} THEN x
       ELSE LET m == MinOf(S \ {x}) IN IF x < m THEN x ELSE m

\* MIN(column) over a table.
SqlMin(table, column) ==
    LET cells == {r[column] : r \in DOMAIN table} \ {NULL}
    IN IF cells = {} THEN NULL ELSE Some(MinOf({c[1] : c \in cells}))

\* MAX(column) over a table: nulls are skipped, and no value gives NULL.
SqlMax(table, column) ==
    LET cells == {r[column] : r \in DOMAIN table} \ {NULL}
    IN IF cells = {} THEN NULL ELSE Some(MaxOf({c[1] : c \in cells}))

\* One statement run on the store: [ok, store, query, rows]. query tells
\* whether the statement returns a result set, rows is that result set (a
\* sequence of tuples, here of one column).
ExecStatement(store, st) ==
    IF st.table \notin DOMAIN store
    THEN [ok |-> FALSE, store |-> store, query |-> FALSE, rows |-> <<>>]
    ELSE CASE st.op = "SELECT_MAX" ->
                IF \E i \in 1..Len(Columns(st.table)) :
                       Columns(st.table)[i] = st.column
                THEN [ok |-> TRUE, store |-> store, query |-> TRUE,
                      rows |-> <<SqlMax(store[st.table], st.column)>>]
                ELSE [ok |-> FALSE, store |-> store, query |-> FALSE,
                      rows |-> <<>>]
           [] st.op = "DELETE" ->
                [ok |-> TRUE, store |-> [store EXCEPT ![st.table] = EmptyBag],
                 query |-> FALSE, rows |-> <<>>]

RECURSIVE sql(_, _)
\* duckdb.sql(text): every statement of the text runs, in order, each one
\* committed as it ends; the first error ends the call. The result is the
\* last statement's.
sql(store, statements) ==
    LET first == ExecStatement(store, Head(statements))
    IN IF ~first.ok \/ Len(statements) = 1 THEN first
       ELSE sql(first.store, Tail(statements))

\* get_watermark's value from the query's outcome: fetchone()'s first column,
\* None when it is null. [raised, value].
WatermarkResult(res) ==
    IF ~res.ok \/ ~res.query
    THEN [raised |-> TRUE, value |-> NULL]
    ELSE [raised |-> FALSE, value |-> res.rows[1]]

\* get_summary's query: the rows of daily_summary with
\* date >= CURRENT_DATE - days, their first four columns.
SummaryQuery(store, today, days) ==
    LET recent == FilterBag(store["daily_summary"],
                            [r \in DOMAIN store["daily_summary"] |->
                                r.date >= today - days])
    IN MapBag(recent,
              [r \in DOMAIN recent |->
                  [date |-> r.date, event_type |-> r.event_type,
                   total_value |-> r.total_value,
                   event_count |-> r.event_count]])

\* The look-back arguments and the current dates get_summary runs with.
DaysArgs == {0, 30}
Todays == {2}

\* ------------------------------------------------------------------- state

VARIABLES
    db,          \* the store: table name -> bag of rows
    openHandles, \* connections opened and not closed, over all pipelines
    pipeline,    \* the DataPipeline object: [state, scoped, closes, fault,
                 \* initError]
    pc,          \* where the current run/load call is
    raw,         \* run's lazy frame from extract
    transformed, \* run's lazy frame from transform
    collects,    \* materializations forced in the current run, in order
    df,          \* the materialized frame load works on
    summary,     \* load's aggregate frame
    failedAt,    \* the step that raised in the current run/load
    load_result, \* what load returned
    lastOp,      \* the public operation called last
    before,      \* the store as that operation found it
    lastRead     \* what the last read helper was given and returned

vars ==
    <<db, openHandles, pipeline, pc, raw, transformed, collects, df, summary,
      failedAt, load_result, lastOp, before, lastRead>>

runVars ==
    <<pc, raw, transformed, collects, df, summary, failedAt, load_result>>

NoFrame == scan(EmptyBag)
NoRead == [op |-> "none"]
NoResultYet == [events_loaded |-> 0, summary_rows |-> 0]

\* No run or load call is in progress.
Idle == pc \in {"idle", "returned", "raised"}
\* The pipeline object exists and its connection has not been closed.
Usable == pipeline.state = "open"

Init ==
    /\ db = EmptyStore
    /\ openHandles = 0
    /\ pipeline = [state |-> "none", scoped |-> FALSE, closes |-> 0,
                   fault |-> FALSE, initError |-> FALSE]
    /\ pc = "idle"
    /\ raw = NoFrame
    /\ transformed = NoFrame
    /\ collects = <<>>
    /\ df = EmptyBag
    /\ summary = EmptyBag
    /\ failedAt = "none"
    /\ load_result = NoResultYet
    /\ lastOp = "none"
    /\ before = EmptyStore
    /\ lastRead = NoRead

\* ------------------------------------------------ construction and release

\* The local state of a call, as a fresh pipeline object finds it.
ResetRun ==
    /\ pc' = "idle"
    /\ raw' = NoFrame
    /\ transformed' = NoFrame
    /\ collects' = <<>>
    /\ df' = EmptyBag
    /\ summary' = EmptyBag
    /\ failedAt' = "none"
    /\ load_result' = NoResultYet

\* DataPipeline(config_path), alone or as the head of a with statement
\* (scoped): duckdb.connect opens the connection, then _init_duckdb_tables
\* runs. When a statement of it raises (fault: the store refuses the write),
\* __init__ raises with the connection open and no object is returned.
DataPipeline_init ==
    /\ pipeline.state \in {"none", "exited", "dropped", "init_failed"}
    /\ openHandles < MaxOpen
    /\ \E scoped \in BOOLEAN, fault \in BOOLEAN :
        LET res == init_duckdb_tables(db)
        IN /\ db' = IF fault THEN db ELSE res.store
           /\ pipeline' = [state |-> IF fault \/ ~res.ok THEN "init_failed"
                                      ELSE "open",
                           scoped |-> scoped, closes |-> 0, fault |-> fault,
                           initError |-> fault \/ ~res.ok]
    /\ openHandles' = openHandles + 1
    /\ lastOp' = "init"
    /\ before' = db
    /\ lastRead' = NoRead
    /\ ResetRun

\* __exit__: the with-block is left, normally or by an exception, and the
\* connection is closed.
DataPipeline_exit ==
    /\ Usable /\ pipeline.scoped /\ Idle
    /\ pipeline' = [pipeline EXCEPT !.state = "exited", !.closes = @ + 1]
    /\ openHandles' = openHandles - 1
    /\ lastOp' = "exit"
    /\ before' = db
    /\ lastRead' = NoRead
    /\ UNCHANGED <<db, runVars>>

\* A pipeline made outside a with statement goes out of use: the class has no
\* close method, and nothing calls duckdb.close().
Drop ==
    /\ Usable /\ ~pipeline.scoped /\ Idle
    /\ pipeline' = [pipeline EXCEPT !.state = "dropped"]
    /\ lastOp' = "drop"
    /\ before' = db
    /\ lastRead' = NoRead
    /\ UNCHANGED <<db, openHandles, runVars>>

\* _init_duckdb_tables() called again on the open pipeline.
InitTablesAgain ==
    /\ Usable /\ Idle
    /\ lastOp' = "init_tables"
    /\ before' = db
    /\ db' = init_duckdb_tables(db).store
    /\ pipeline' = [pipeline EXCEPT !.initError = ~init_duckdb_tables(db).ok]
    /\ lastRead' = NoRead
    /\ UNCHANGED <<openHandles, runVars>>

\* --------------------------------------------------------------------- run

\* run(source_path), line 175: raw = self.extract(source_path). A run starts
\* from a pipeline that has made no call yet: the calls that follow one another
\* on a store are those of load.
RunExtract ==
    /\ Usable /\ pc = "idle"
    /\ \E source \in Sources : raw' = extract(source)
    /\ lastOp' = "run"
    /\ before' = db
    /\ lastRead' = NoRead
    /\ pc' = "extracted"
    /\ transformed' = NoFrame
    /\ collects' = <<>>
    /\ df' = EmptyBag
    /\ summary' = EmptyBag
    /\ failedAt' = "none"
    /\ load_result' = NoResultYet
    /\ UNCHANGED <<db, openHandles, pipeline>>

\* run, line 176: the row-count log calls raw.collect().
RunLogCount ==
    /\ pc = "extracted"
    /\ collects' = Append(collects, "log")
    /\ pc' = IF collect(raw).ok THEN "counted" ELSE "raised"
    /\ failedAt' = IF collect(raw).ok THEN failedAt ELSE "log"
    /\ UNCHANGED <<db, openHandles, pipeline, raw, transformed, df, summary,
                   load_result, lastOp, before, lastRead>>

\* run, line 179: transformed = self.transform(raw).
RunTransform ==
    /\ pc = "counted"
    /\ transformed' = transform(raw)
    /\ pc' = "transformed"
    /\ UNCHANGED <<db, openHandles, pipeline, raw, collects, df, summary,
                   failedAt, load_result, lastOp, before, lastRead>>

\* run, lines 182-183: result_df = transformed.collect(), handed to load.
\* A collect that raises goes to the except block, which logs and re-raises.
RunCollect ==
    /\ pc = "transformed"
    /\ collects' = Append(collects, "load")
    /\ LET res == collect(transformed)
       IN IF res.ok
          THEN /\ df' = res.frame
               /\ pc' = "load"
               /\ failedAt' = failedAt
          ELSE /\ df' = df
               /\ pc' = "raised"
               /\ failedAt' = "transform"
    /\ UNCHANGED <<db, openHandles, pipeline, raw, transformed, summary,
                   load_result, lastOp, before, lastRead>>

\* -------------------------------------------------------------------- load

\* load(frame) is called with a materialized frame: by run, with the frame
\* its collect returned, or by the user of the pipeline.
LoadCall ==
    /\ Usable /\ Idle
    /\ \E frame \in LoadFrames :
        /\ BagCardinality(db["raw_events"]) + BagCardinality(frame) <= MaxStored
        /\ df' = frame
    /\ lastOp' = "load"
    /\ before' = db
    /\ lastRead' = NoRead
    /\ pc' = "load"
    /\ raw' = NoFrame
    /\ transformed' = NoFrame
    /\ collects' = <<>>
    /\ summary' = EmptyBag
    /\ failedAt' = "none"
    /\ load_result' = NoResultYet
    /\ UNCHANGED <<db, openHandles, pipeline>>

\* load, line 138: INSERT INTO raw_events SELECT * FROM df.
LoadInsertRaw ==
    /\ pc = "load"
    /\ LET res == InsertSelectStar(db, "raw_events", df, FrameColumns)
       IN /\ db' = res.store
          /\ pc' = IF res.ok THEN "raw_inserted" ELSE "raised"
          /\ failedAt' = IF res.ok THEN failedAt ELSE "insert_raw"
    /\ UNCHANGED <<openHandles, pipeline, raw, transformed, collects, df,
                   summary, load_result, lastOp, before, lastRead>>

\* load, lines 141-148: summary = df.group_by(...).agg(...).sort("date").
LoadAggregate ==
    /\ pc = "raw_inserted"
    /\ summary' = Summary(df)
    /\ pc' = "aggregated"
    /\ UNCHANGED <<db, openHandles, pipeline, raw, transformed, collects, df,
                   failedAt, load_result, lastOp, before, lastRead>>

\* The summary insert in one transaction with the raw insert: a failure rolls
\* the store back to what load found.
LoadInsertSummaryRollback ==
    /\ pc = "aggregated"
    /\ LET res == InsertSelectStar(db, "daily_summary", summary, SummaryColumns)
       IN /\ db' = IF res.ok THEN res.store ELSE before
          /\ pc' = IF res.ok THEN "returned" ELSE "raised"
          /\ failedAt' = IF res.ok THEN failedAt ELSE "insert_summary"
          /\ load_result' =
                IF res.ok
                THEN [events_loaded |-> BagCardinality(df),
                      summary_rows |-> BagCardinality(summary)]
                ELSE load_result
    /\ UNCHANGED <<openHandles, pipeline, raw, transformed, collects, df,
                   summary, lastOp, before, lastRead>>

\* load, lines 150-156: INSERT INTO daily_summary SELECT * FROM summary, then
\* the statistics are returned. An insert that raises leaves load, and run's
\* except block, which logs and re-raises.
LoadInsertSummary ==
    /\ pc = "aggregated"
    /\ LET res == InsertSelectStar(db, "daily_summary", summary, SummaryColumns)
       IN /\ db' = res.store
          /\ pc' = IF res.ok THEN "returned" ELSE "raised"
          /\ failedAt' = IF res.ok THEN failedAt ELSE "insert_summary"
          /\ load_result' =
                IF res.ok
                THEN [events_loaded |-> BagCardinality(df),
                      summary_rows |-> BagCardinality(summary)]
                ELSE load_result
    /\ UNCHANGED <<openHandles, pipeline, raw, transformed, collects, df,
                   summary, lastOp, before, lastRead>>

\* ------------------------------------------------------------ read helpers

\* get_summary(days), on a day `today`.
get_summary ==
    /\ Usable /\ Idle
    /\ \E days \in DaysArgs, today \in Todays :
        lastRead' = [op |-> "get_summary", days |-> days, today |-> today,
                     raised |-> FALSE,
                     value |-> SummaryQuery(db, today, days)]
    /\ lastOp' = "get_summary"
    /\ before' = db
    /\ UNCHANGED <<db, openHandles, pipeline, runVars>>

\* get_watermark(table_name).
get_watermark ==
    /\ Usable /\ Idle
    /\ \E table_name \in WatermarkArgs :
        LET res == sql(db, WatermarkQuery(table_name))
        IN /\ db' = res.store
           /\ lastRead' = [op |-> "get_watermark", arg |-> table_name,
                           raised |-> WatermarkResult(res).raised,
                           value |-> WatermarkResult(res).value]
    /\ lastOp' = "get_watermark"
    /\ before' = db
    /\ UNCHANGED <<openHandles, pipeline, runVars>>

\* ------------------------------------------------------------ specification

\* The state a pipeline constructed in a with statement on an empty store
\* starts from.
InitOpen ==
    /\ db = init_duckdb_tables(EmptyStore).store
    /\ openHandles = 1
    /\ pipeline = [state |-> "open", scoped |-> TRUE, closes |-> 0,
                   fault |-> FALSE, initError |-> FALSE]
    /\ pc = "idle"
    /\ raw = NoFrame
    /\ transformed = NoFrame
    /\ collects = <<>>
    /\ df = EmptyBag
    /\ summary = EmptyBag
    /\ failedAt = "none"
    /\ load_result = NoResultYet
    /\ lastOp = "init"
    /\ before = EmptyStore
    /\ lastRead = NoRead

\* The pipeline's life on one store: pipelines are constructed and released,
\* the tables are initialized, frames are loaded.
Next ==
    \/ DataPipeline_init
    \/ DataPipeline_exit
    \/ Drop
    \/ InitTablesAgain
    \/ LoadCall
    \/ LoadInsertRaw
    \/ LoadAggregate
    \/ LoadInsertSummary

Spec == Init /\ [][Next]_vars

\* An open pipeline: frames are loaded and the read helpers are called.
NextRead ==
    \/ LoadCall
    \/ LoadInsertRaw
    \/ LoadAggregate
    \/ LoadInsertSummary
    \/ get_summary
    \/ get_watermark

SpecRead == InitOpen /\ [][NextRead]_vars

\* One call of run, on every source, by a pipeline just constructed.
NextRun ==
    \/ RunExtract
    \/ RunLogCount
    \/ RunTransform
    \/ RunCollect
    \/ LoadInsertRaw
    \/ LoadAggregate
    \/ LoadInsertSummary

SpecRun == InitOpen /\ [][NextRun]_vars

\* ------------------------------------------------------------------ claims

\* A call of load has ended, by returning or by raising.
LoadEnded ==
    \/ pc = "returned"
    \/ pc = "raised" /\ failedAt \in {"insert_raw", "insert_summary"}

\* run's collect of the transformed frame has returned a frame.
Collected ==
    \/ pc \in {"load", "raw_inserted", "aggregated", "returned"}
    \/ pc = "raised" /\ failedAt \in {"insert_raw", "insert_summary"}

\* C1: the connection opened by the constructor is closed exactly once on
\* every path: a pipeline that has ended (left its with-block, gone out of use
\* outside one, or failed in table initialization) has had close called once.
C1_ReleasedExactlyOnce ==
    pipeline.state \in {"exited", "dropped", "init_failed"}
        => pipeline.closes = 1

\* The rows of frame T in the group (date d, event_type e).
GroupOf(T, d, e) ==
    {r \in DOMAIN T : r.timestamp[1] \div 24 = d /\ r.event_type = e}

\* C2: load(T) followed by get_summary returns, for each (date, event_type)
\* group of T, a row whose total_value is the sum of value over the group and
\* whose event_count is the number of its rows. (The look-back of 30 days
\* covers every date of the model.)
C2_SummaryMatchesLoad ==
    (LoadEnded /\ lastRead.op = "get_summary" /\ lastRead.days = 30)
        => \A r \in DOMAIN df :
              \E g \in DOMAIN lastRead.value :
                 LET rows == GroupOf(df, r.timestamp[1] \div 24, r.event_type)
                 IN /\ g.date = r.timestamp[1] \div 24
                    /\ g.event_type = r.event_type
                    /\ g.total_value =
                          SumOver([x \in rows |-> df[x] * x.value[1]], rows)
                    /\ g.event_count = SumOver([x \in rows |-> df[x]], rows)

\* C3: when the raw insert has succeeded and the summary insert fails, the
\* error reaches the caller, raw_events holds what it held before the load
\* plus every row of the batch, and daily_summary is as it was before the load.
C3_NoRollback ==
    (lastOp \in {"load", "run"} /\ failedAt = "insert_summary")
        => /\ pc = "raised"
           /\ db["raw_events"] = before["raw_events"] (+) df
           /\ db["daily_summary"] = before["daily_summary"]

\* A load onto a table that holds rows already has failed in the summary insert.
C3_Witness ==
    /\ lastOp = "load" /\ failedAt = "insert_summary"
    /\ df # EmptyBag
    /\ before["raw_events"] # EmptyBag

\* C4: get_watermark("raw_events") returns the largest timestamp of the rows
\* of raw_events, and None exactly when the table is empty.
C4_Watermark ==
    (lastRead.op = "get_watermark" /\ lastRead.arg = PlainName("raw_events"))
        => LET stamps == {r.timestamp : r \in DOMAIN db["raw_events"]}
           IN /\ ~lastRead.raised
              /\ (lastRead.value = NULL) <=> (DOMAIN db["raw_events"] = {})
              /\ lastRead.value # NULL =>
                    /\ lastRead.value \in stamps
                    /\ \A t \in stamps : t[1] <= lastRead.value[1]

\* The watermark of a table that holds three timestamps is the latest.
C4_Witness ==
    /\ lastRead.op = "get_watermark" /\ lastRead.arg = PlainName("raw_events")
    /\ {r.timestamp : r \in DOMAIN db["raw_events"]}
          = {Some(24), Some(36), Some(48)}
    /\ lastRead.value = Some(48)

\* An input row passes the default transform: its filled value is positive
\* and its timestamp, as a datetime, is on or after the lower bound.
Passes(x) ==
    /\ x.value # NULL /\ x.value[1] > 0
    /\ x.timestamp # NULL /\ WellFormed(x.timestamp[1])
    /\ ParseDatetime(x.timestamp[1]) >= LowerBound

\* The output row of an input row that passes.
Output(x) ==
    [x EXCEPT !.timestamp = Some(ParseDatetime(x.timestamp[1]))]

\* C5: the materialized output of transform holds an input row exactly when
\* its filled value is > 0 and its coerced timestamp is >= the lower bound; a
\* row whose value is missing is never in it.
C5_TransformOutput ==
    Collected =>
        /\ \A x \in DOMAIN raw.scan :
              Passes(x) => /\ Output(x) \in DOMAIN df
                           /\ df[Output(x)] = raw.scan[x]
        /\ \A r \in DOMAIN df :
              \E x \in DOMAIN raw.scan : Passes(x) /\ Output(x) = r

\* A source with a row that passes, and rows with a missing value on either
\* side of the lower bound, has been transformed and materialized.
C5_Witness ==
    /\ pc = "load"
    /\ df # EmptyBag
    /\ \E x \in DOMAIN raw.scan :
          /\ x.value = NULL
          /\ x.timestamp = Some("2024-01-01T12:00:00")
    /\ \E x \in DOMAIN raw.scan : Passes(x)

\* The output of the default transform when a cell that does not parse
\* becomes a null.
SoftOutput(source) ==
    LET passes(x) ==
            /\ x.value # NULL /\ x.value[1] > 0
            /\ to_datetime(x.timestamp, FALSE).value # NULL
            /\ to_datetime(x.timestamp, FALSE).value[1] >= LowerBound
        kept == FilterBag(source, [x \in DOMAIN source |-> passes(x)])
    IN MapBag(kept,
              [x \in DOMAIN kept |->
                  [x EXCEPT !.timestamp = to_datetime(@, FALSE).value]])

\* C6: a timestamp that does not parse becomes a null and does not abort the
\* transform: once run has collected the transformed frame, it has not raised
\* there, and the frame is that of the source with the malformed cells null.
C6_CoercionFailsSoft ==
    Len(collects) = 2
        => /\ failedAt # "transform"
           /\ df = SoftOutput(raw.scan)

\* C7: get_summary and get_watermark leave raw_events and daily_summary as
\* they found them, whatever the argument.
C7_ReadOnlyHelpers ==
    lastOp \in {"get_summary", "get_watermark"} => db = before

\* C8: run materializes the lazy frame once, after transform and right before
\* load: nothing is materialized before the transformed frame is collected.
C8_SingleMaterialization ==
    /\ pc \in {"extracted", "counted", "transformed"} => collects = <<>>
    /\ Collected => collects = <<"load">>

\* C9: table initialization run on a store that has the tables already (a
\* second call, or a new pipeline on the store) leaves every row of both
\* tables as it was and raises only when the store itself fails.
C9_InitIdempotent ==
    (/\ lastOp \in {"init", "init_tables"}
     /\ {"raw_events", "daily_summary"} \subseteq DOMAIN before)
        => /\ db = before
           /\ pipeline.initError => pipeline.fault

\* A new pipeline has been constructed on a store whose raw_events holds rows.
C9_Witness ==
    /\ lastOp = "init"
    /\ pipeline.state = "open"
    /\ "raw_events" \in DOMAIN before
    /\ before["raw_events"] # EmptyBag

\* C10: each load appends: when a call of load has ended, raw_events holds
\* what it held before plus the batch, and daily_summary what it held before
\* plus the batch's summary rows (so the same batch loaded twice leaves two
\* rows for a key).
C10_AppendOnlyGrowth ==
    (lastOp = "load" /\ LoadEnded)
        => /\ db["raw_events"] = before["raw_events"] (+) df
           /\ db["daily_summary"] = before["daily_summary"] (+) Summary(df)

====
